---- MODULE Spec2Model ----
(***************************************************************************)
(* A model of the tiling / mosaicking module (geo/tiling.py: tile,         *)
(* map_over_tiles, auto_merge) and of the algorithm bridge                 *)
(* (nd/algorithm.py: extract_arguments, wrap_algorithm).                   *)
(*                                                                         *)
(* Datasets are modelled by provenance: a fragment maps each dimension to  *)
(* the sequence of 0-based indices of the original dataset it holds, in    *)
(* order.  isel and concatenation move coordinates and values together, so *)
(* a merged dataset equals the original in shape, coordinates and values   *)
(* exactly when every dimension holds <<0, 1, ..., n-1>>.                  *)
(***************************************************************************)
EXTENDS Integers, Sequences, FiniteSets, TLC

VARIABLES
    \* ---- tile() / auto_merge() ----
    ds,         \* the dataset: chunk lengths and coordinate spacing per dim
    tbuf,       \* tile()'s buffer argument
    tpc,        \* "start" | "badpath" | "tiled" | "nofiles" | "merging" | "done" |
                \* "raised" | "diverged"
    tfiles,     \* the output directory of tile(): file name -> fragment
    tlog,       \* the to_netcdf calls of tile(), in loop order
    mbuf,       \* auto_merge()'s buffer argument
    mfull,      \* auto_merge() was given every tile file
    merged,     \* auto_merge(): the list `merged`
    buf_cache,  \* auto_merge(): the dict buf_cache
    passes,     \* iterations of auto_merge()'s while loop so far
    \* ---- map_over_tiles() ----
    fs,         \* the files on disk: path -> content
    dirs,       \* the directories on disk
    call,       \* the arguments of the map_over_tiles() call
    mpc,        \* "idle" | "deferred" | "running" | "returned"
    units,      \* the per-file units _wrapper(f): position and locals
    ncalls,     \* map_over_tiles() calls made so far
    evaluated,  \* the delayed object of the call has been computed
    pre,        \* the files and directories on disk when the call was made
    reads,      \* satio.from_netcdf calls of the call: the paths read
    invoked,    \* fn invocations of the call
    result,     \* what the call (or the evaluation of its handle) returned
    \* ---- wrap_algorithm() ----
    algo,       \* the Algorithm class: the signatures of apply and __init__
    wargs,      \* the positional values the wrapper is called with
    wkwargs,    \* the keyword values the wrapper is called with
    wpc,        \* "ready" | "returned"
    wret        \* what the wrapper returned (or that it raised)

tvars == <<ds, tbuf, tpc, tfiles, tlog, mbuf, mfull, merged, buf_cache, passes>>
mvars == <<fs, dirs, call, mpc, units, ncalls, evaluated, pre, reads, invoked, result>>
wvars == <<algo, wargs, wkwargs, wpc, wret>>
vars == <<tvars, mvars, wvars>>

----------------------------------------------------------------------------
(* Bounds of the model *)

MaxChunks == 2
MaxChunkLen == 2
MaxBuf == 1
MaxPasses == 3
MaxFiles == 2
MaxCalls == 2
MaxPositional == 5

----------------------------------------------------------------------------
(* Generic helpers *)

Max(a, b) == IF a >= b THEN a ELSE b
Min(a, b) == IF a <= b THEN a ELSE b
Abs(a) == IF a < 0 THEN -a ELSE a

RECURSIVE Sum(_)
Sum(s) == IF s = <<>> THEN 0 ELSE Head(s) + Sum(Tail(s))

Range(s) == {s[i] : i \in DOMAIN s}

\* <<0, 1, ..., n-1>>
Iota(n) == [i \in 1..n |-> i - 1]

\* Python's s[start:stop] for a sequence; <<>> stands for None, <<n>> for n.
PySlice(s, start, stop) ==
    LET n == Len(s)
        norm(i) == IF i < 0 THEN Max(0, n + i) ELSE Min(i, n)
        lo == IF start = <<>> THEN 0 ELSE norm(start[1])
        hi == IF stop = <<>> THEN n ELSE norm(stop[1])
    IN  IF lo >= hi THEN <<>> ELSE SubSeq(s, lo + 1, hi)

----------------------------------------------------------------------------
(* The dataset *)

\* datasets[0].dims / chunked.chunks: the dimensions, in iteration order
Dims == <<"y", "x">>
DimSet == Range(Dims)

ChunkSeqs == UNION {[1..n -> 1..MaxChunkLen] : n \in 1..MaxChunks}

\* coordinate spacing of a dimension: increasing or decreasing
Steps == {-1, 1}

Datasets == [chunks : [DimSet -> ChunkSeqs], step : [DimSet -> Steps]]

\* tile(buffer=...) and auto_merge(buffer=...): an int or a dict; auto_merge
\* also takes 'auto'
IntBuffers == [kind : {"int"}, val : 0..MaxBuf]
DictBuffers == UNION {[kind : {"dict"}, map : [D -> 0..MaxBuf]] : D \in SUBSET DimSet}
AutoBuffer == [kind |-> "auto"]

DimLen(d) == Sum(ds.chunks[d])

\* the coordinate value at index i of dimension d (uniformly spaced)
Coord(d, i) == ds.step[d] * i

\* ds[d].values[0] of a fragment
First(frag, d) == Coord(d, Head(frag[d]))

\* the whole dataset as a fragment
Whole == [d \in DimSet |-> Iota(DimLen(d))]

----------------------------------------------------------------------------
(* tile() *)

\* lines 48-53: the buffer of one dimension
TileBuf(buffer, dim) ==
    IF buffer.kind = "int" THEN buffer.val
    ELSE IF buffer.kind = "dict"
         THEN (IF dim \in DOMAIN buffer.map THEN buffer.map[dim] ELSE 0)
         ELSE 0

\* lines 55-61: one slice per chunk, grown by the buffer and clipped at 0
RECURSIVE ChunkSlices(_, _, _)
ChunkSlices(chunk_lens, start, buf) ==
    IF chunk_lens = <<>> THEN <<>>
    ELSE LET l == Head(chunk_lens)
             s == Max(0, start - buf)
         IN  <<[start |-> s, stop |-> start + l + buf, chunk |-> start]>>
             \o ChunkSlices(Tail(chunk_lens), start + l, buf)

\* lines 43-61: slices[dim]
Slices == [d \in DimSet |-> ChunkSlices(ds.chunks[d], 0, TileBuf(tbuf, d))]

\* utils.dict_product: every combination of one slice per dimension
DictProduct(slices) ==
    LET ny == Len(slices[Dims[1]])
        nx == Len(slices[Dims[2]])
    IN  [k \in 1..(ny * nx) |->
            (Dims[1] :> slices[Dims[1]][((k - 1) \div nx) + 1])
         @@ (Dims[2] :> slices[Dims[2]][((k - 1) % nx) + 1])]

\* line 66: chunked.isel(slice_dict)
Isel(slice_dict) ==
    [d \in DimSet |->
        PySlice(Iota(DimLen(d)), <<slice_dict[d].start>>, <<slice_dict[d].stop>>)]

\* (mutant) the name is built from the chunk's start before buffering
TileName_unbuffered(slice_dict) ==
    [prefix |-> "part",
     suffix |-> [i \in 1..Len(Dims) |-> <<Dims[i], slice_dict[Dims[i]].chunk>>],
     ext |-> "nc"]

\* lines 67-70: '{prefix}.' + '.'.join(f'{dim}_{s.start}') + '.nc'
TileName(slice_dict) ==
    [prefix |-> "part",
     suffix |-> [i \in 1..Len(Dims) |-> <<Dims[i], slice_dict[Dims[i]].start>>],
     ext |-> "nc"]

\* satio.to_netcdf: write, replacing any file of that name
ToNetcdf(files, name, data) == (name :> data) @@ files

\* lines 64-71: the loop over the product
RECURSIVE WriteTiles(_, _)
WriteTiles(combos, files) ==
    IF combos = <<>> THEN files
    ELSE WriteTiles(Tail(combos),
                    ToNetcdf(files, TileName(Head(combos)), Isel(Head(combos))))

TileLog(combos) ==
    [k \in DOMAIN combos |->
        [chunk |-> [d \in DimSet |-> combos[k][d].chunk],
         name |-> TileName(combos[k])]]

NoFiles == [n \in {} |-> <<>>]

\* tile(ds, path): path is a directory or does not exist
Tile ==
    /\ tpc = "start"
    /\ tfiles' = WriteTiles(DictProduct(Slices), NoFiles)
    /\ tlog' = TileLog(DictProduct(Slices))
    /\ tpc' = "tiled"
    /\ UNCHANGED <<ds, tbuf, mbuf, mfull, merged, buf_cache, passes>>

\* lines 31-32: path is a file: ValueError, nothing is written
TileBadPath ==
    /\ tpc = "start"
    /\ tpc' = "badpath"
    /\ UNCHANGED <<ds, tbuf, tfiles, tlog, mbuf, mfull, merged, buf_cache, passes>>

----------------------------------------------------------------------------
(* auto_merge() *)

NoCache == [d \in {} |-> 0]

\* a list holding the elements of a set (glob.glob gives no particular order)
RECURSIVE SetToSeq(_)
SetToSeq(S) ==
    IF S = {} THEN <<>>
    ELSE LET x == CHOOSE x \in S : TRUE IN <<x>> \o SetToSeq(S \ {x})

\* lines 191-192: the dimensions whose first coordinate differs between datasets
SplitDims(datasets) ==
    SelectSeq(Dims, LAMBDA d : Cardinality({First(datasets[i], d) : i \in DOMAIN datasets}) > 1)

\* tuple(ds[d].values[0] for d in dims)
Key(frag, dims) == [i \in 1..Len(dims) |-> First(frag, dims[i])]

\* Python's tuple comparison a < b
RECURSIVE TupleLess(_, _)
TupleLess(a, b) ==
    IF a = <<>> THEN b # <<>>
    ELSE IF b = <<>> THEN FALSE
    ELSE IF Head(a) # Head(b) THEN Head(a) < Head(b)
    ELSE TupleLess(Tail(a), Tail(b))

\* lines 199-200: sorted(datasets, key=...), a stable sort
RECURSIVE InsertSorted(_, _, _)
InsertSorted(f, s, dims) ==
    IF s = <<>> THEN <<f>>
    ELSE IF TupleLess(Key(f, dims), Key(Head(s), dims)) THEN <<f>> \o s
    ELSE <<Head(s)>> \o InsertSorted(f, Tail(s), dims)

RECURSIVE SortedBy(_, _)
SortedBy(s, dims) ==
    IF s = <<>> THEN <<>>
    ELSE InsertSorted(s[Len(s)], SortedBy(SubSeq(s, 1, Len(s) - 1), dims), dims)

\* lines 201-205: itertools.groupby: runs of consecutive datasets of equal key
RECURSIVE GroupBy(_, _)
GroupBy(s, dims) ==
    IF s = <<>> THEN <<>>
    ELSE LET k == Key(Head(s), dims)
             n == CHOOSE n \in 1..Len(s) :
                     /\ \A i \in 1..n : Key(s[i], dims) = k
                     /\ n = Len(s) \/ Key(s[n + 1], dims) # k
         IN  <<SubSeq(s, 1, n)>> \o GroupBy(SubSeq(s, n + 1, Len(s)), dims)

\* np.argmin: the 0-based index of the first minimum
ArgMin(v) ==
    (CHOOSE i \in 1..Len(v) :
        /\ \A j \in 1..Len(v) : v[i] <= v[j]
        /\ \A j \in 1..(i - 1) : v[j] > v[i]) - 1

\* lines 213-215: the overlap inferred from the first two datasets of a group
AutoDetect(group, concat_dim) ==
    LET last == Coord(concat_dim, group[1][concat_dim][Len(group[1][concat_dim])])
        diff == [j \in 1..Len(group[2][concat_dim]) |->
                    Coord(concat_dim, group[2][concat_dim][j]) - last]
        absdiff == [j \in DOMAIN diff |-> Abs(diff[j])]
    IN  (ArgMin(absdiff) + 1) \div 2

\* lines 218-225: a fixed buffer
MergeBuf(buffer, concat_dim) ==
    IF buffer.kind = "int" THEN buffer.val
    ELSE IF buffer.kind = "dict"
         THEN (IF concat_dim \in DOMAIN buffer.map THEN buffer.map[concat_dim] ELSE 0)
         ELSE 0

\* ds.isel({concat_dim: slice(start, stop)}) of a fragment
IselDim(frag, concat_dim, start, stop) ==
    [frag EXCEPT ![concat_dim] = PySlice(frag[concat_dim], start, stop)]

\* lines 228-235: the overlap is cut off the datasets of a group
ApplyBuffer(group, concat_dim, buf) ==
    IF buf > 0
    THEN <<IselDim(group[1], concat_dim, <<>>, <<-buf>>)>>
         \o [i \in 1..(Len(group) - 2) |-> IselDim(group[i + 1], concat_dim, <<buf>>, <<-buf>>)]
         \o <<IselDim(group[Len(group)], concat_dim, <<buf>>, <<>>)>>
    ELSE group

RECURSIVE Flatten(_)
Flatten(ss) == IF ss = <<>> THEN <<>> ELSE Head(ss) \o Flatten(Tail(ss))

HasDuplicates(s) == Cardinality(Range(s)) < Len(s)

\* the indices of S in increasing order of their coordinate
RECURSIVE ByCoord(_, _)
ByCoord(S, d) ==
    IF S = {} THEN <<>>
    ELSE LET m == CHOOSE m \in S : \A o \in S : Coord(d, m) <= Coord(d, o)
         IN  <<m>> \o ByCoord(S \ {m}, d)

\* line 238: xr.auto_combine(group, concat_dim): the datasets are concatenated
\* in the order given; the other dimensions are aligned by an outer join, which
\* leaves equal indexes alone and fails on an index with duplicate labels.
CanCombine(group, concat_dim) ==
    \A d \in DimSet \ {concat_dim} :
        \/ \A i \in DOMAIN group : group[i][d] = group[1][d]
        \/ \A i \in DOMAIN group : ~HasDuplicates(group[i][d])

AutoCombine(group, concat_dim) ==
    [d \in DimSet |->
        IF d = concat_dim
        THEN Flatten([i \in DOMAIN group |-> group[i][d]])
        ELSE IF \A i \in DOMAIN group : group[i][d] = group[1][d]
             THEN group[1][d]
             ELSE ByCoord(UNION {Range(group[i][d]) : i \in DOMAIN group}, d)]

\* lines 187-240: one pass, _combine_along_last_dim(datasets).  The result is
\* the new list and cache, or "raised" where the code raises (an IndexError of
\* values[0], split_dims[-1] or group[1], an error of the concatenation).
CombineAlongLastDim(datasets, buffer, cache) ==
    IF \E i \in DOMAIN datasets : \E d \in DimSet : datasets[i][d] = <<>>
    THEN [status |-> "raised"]
    ELSE
    LET split_dims == SplitDims(datasets)
    IN  IF split_dims = <<>> THEN [status |-> "raised"]
        ELSE
        LET concat_dim == split_dims[Len(split_dims)]
            sorted_ds == SortedBy(datasets, split_dims)
            groups == GroupBy(sorted_ds, SubSeq(split_dims, 1, Len(split_dims) - 1))
            cached == buffer.kind = "auto" /\ concat_dim \in DOMAIN cache
            detect == buffer.kind = "auto" /\ ~cached
        IN  IF detect /\ Len(groups[1]) < 2 THEN [status |-> "raised"]
            ELSE
            LET buf == IF cached THEN cache[concat_dim]
                       ELSE IF detect THEN AutoDetect(groups[1], concat_dim)
                       ELSE MergeBuf(buffer, concat_dim)
                trimmed == [g \in DOMAIN groups |-> ApplyBuffer(groups[g], concat_dim, buf)]
            IN  IF \E g \in DOMAIN groups : ~CanCombine(trimmed[g], concat_dim)
                THEN [status |-> "raised"]
                ELSE [status |-> "ok",
                      merged |-> [g \in DOMAIN groups |-> AutoCombine(trimmed[g], concat_dim)],
                      cache |-> IF detect THEN (concat_dim :> buf) @@ cache ELSE cache]

\* lines 172-185: auto_merge(datasets, buffer) is called on tile files
CallMerge ==
    /\ tpc = "tiled"
    /\ \E S \in SUBSET DOMAIN tfiles :
          /\ S # {}
          /\ merged' = [i \in 1..Cardinality(S) |-> tfiles[SetToSeq(S)[i]]]
          /\ mfull' = (S = DOMAIN tfiles)
    /\ mbuf' \in IntBuffers \cup DictBuffers \cup {AutoBuffer}
    /\ buf_cache' = NoCache
    /\ passes' = 0
    /\ tpc' = "merging"
    /\ UNCHANGED <<ds, tbuf, tfiles, tlog>>

\* lines 176-177: no dataset: ValueError
MergeNoFiles ==
    /\ tpc = "tiled"
    /\ tpc' = "nofiles"
    /\ UNCHANGED <<ds, tbuf, tfiles, tlog, mbuf, mfull, merged, buf_cache, passes>>

\* lines 243-244: one iteration of the while loop.  An iteration that leaves
\* `merged` and the cache as they were is repeated for ever: "diverged".
MergePass ==
    /\ tpc = "merging"
    /\ Len(merged) > 1
    /\ passes < MaxPasses
    /\ LET r == CombineAlongLastDim(merged, mbuf, buf_cache)
       IN  IF r.status = "raised"
           THEN tpc' = "raised" /\ UNCHANGED <<merged, buf_cache, passes>>
           ELSE IF r.merged = merged /\ r.cache = buf_cache
           THEN tpc' = "diverged" /\ UNCHANGED <<merged, buf_cache, passes>>
           ELSE /\ merged' = r.merged
                /\ buf_cache' = r.cache
                /\ passes' = passes + 1
                /\ UNCHANGED tpc
    /\ UNCHANGED <<ds, tbuf, tfiles, tlog, mbuf, mfull>>

\* lines 243, 250: the loop ends with one dataset, which is returned
MergeReturn ==
    /\ tpc = "merging"
    /\ Len(merged) = 1
    /\ tpc' = "done"
    /\ UNCHANGED <<ds, tbuf, tfiles, tlog, mbuf, mfull, merged, buf_cache, passes>>

----------------------------------------------------------------------------
(* map_over_tiles() *)

\* A file name is a sequence of tokens: "." is a dot, every other token is a
\* string without a dot.  A path is <<directory, name>>.
NameTile == <<"a", ".", "nc">>
NameTileNew == <<"a", "_new", ".", "nc">>
NameBare == <<"a">>
Directories == {"d1", "d2"}
InputPaths == {<<"d1", NameTile>>, <<"d1", NameTileNew>>, <<"d1", NameBare>>,
               <<"d2", NameTile>>}
Suffixes == {<<>>, <<".", "v">>}
None == "None"

\* the content of a file: fn applied gen times to what `src` held at first
Original(path) == [src |-> path, gen |-> 0]
NoData == [src |-> <<"", <<>>>>, gen |-> -1]
NoPath == <<"", <<>>>>

\* os.path.splitext of a name: split at the last dot, unless only dots
\* precede it
SplitExt(name) ==
    LET dots == {i \in DOMAIN name : name[i] = "."}
    IN  IF dots = {} THEN <<name, <<>>>>
        ELSE LET i == CHOOSE i \in dots : \A j \in dots : j <= i
             IN  IF \A j \in 1..(i - 1) : name[j] = "."
                 THEN <<name, <<>>>>
                 ELSE <<SubSeq(name, 1, i - 1), SubSeq(name, i, Len(name))>>

\* lines 120-124: the natural output path of input file f
NaturalPath(f, path, suffix) ==
    LET root == f[1]
        stem == SplitExt(f[2])[1]
        ext == SplitExt(f[2])[2]
        out_name == stem \o suffix \o ext
        out_path == IF path = None THEN root ELSE path
    IN  <<out_path, out_name>>

\* line 126: '{}_new{}'.format(*os.path.splitext(out_file))
NewPath(out_file) ==
    <<out_file[1], SplitExt(out_file[2])[1] \o <<"_new">> \o SplitExt(out_file[2])[2]>>

\* (mutant) the output always goes to the natural path
OutFile_always_natural(natural, overwrite, exists) == natural

\* lines 125-126: the path the result is written to
OutFile(natural, overwrite, exists) ==
    IF ~overwrite /\ exists THEN NewPath(natural) ELSE natural

\* fn(data, *args, **kwargs)
Fn(data) == [data EXCEPT !.gen = @ + 1]

\* satio.from_netcdf / satio.to_netcdf on the file system
FromNetcdf(files, path) == files[path]
WriteNetcdf(files, path, data) == (path :> data) @@ files

Calls ==
    [files : Seq(InputPaths), path : Directories \cup {None}, suffix : Suffixes,
     merge : BOOLEAN, overwrite : BOOLEAN, compute : BOOLEAN]

NoCall == [files |-> <<>>, path |-> None, suffix |-> <<>>,
           merge |-> FALSE, overwrite |-> FALSE, compute |-> FALSE]
NoResult == [merged |-> FALSE, files |-> <<>>]

NewUnit(f) ==
    [pc |-> "pending", f |-> f, data |-> NoData, result |-> NoData,
     natural |-> NoPath, existed |-> FALSE, out_file |-> NoPath]

\* (mutant) the units start running although compute is False
StartPc_eager(compute) == "running"

\* lines 141-144: compute the delayed object now, or return it
StartPc(compute) == IF compute THEN "running" ELSE "deferred"

\* lines 111-112: os.makedirs(path, exist_ok=True)
MakeDirs(c) == IF c.path # None THEN dirs \cup {c.path} ELSE dirs

\* lines 108-144: the call itself: the directory is made, the delayed units are
\* built, and the graph is computed or returned
Begin(c) ==
    /\ call' = c
    /\ pre' = [fs |-> fs, dirs |-> dirs]
    /\ dirs' = MakeDirs(c)
    /\ units' = [i \in DOMAIN c.files |-> NewUnit(c.files[i])]
    /\ mpc' = StartPc(c.compute)
    /\ evaluated' = c.compute
    /\ ncalls' = ncalls + 1
    /\ reads' = <<>>
    /\ invoked' = 0
    /\ result' = NoResult
    /\ UNCHANGED fs

CallMap ==
    /\ mpc = "idle"
    /\ \E S \in SUBSET DOMAIN fs :
       \E path \in Directories \cup {None} :
       \E suffix \in Suffixes :
       \E merge, overwrite, compute \in BOOLEAN :
          /\ S # {}
          /\ Cardinality(S) <= MaxFiles
          /\ Begin([files |-> SetToSeq(S), path |-> path, suffix |-> suffix,
                    merge |-> merge, overwrite |-> overwrite, compute |-> compute])

\* the same call is made once more
CallAgain ==
    /\ mpc = "returned"
    /\ ncalls < MaxCalls
    /\ Begin(call)

\* the caller computes the delayed object returned by the call
Evaluate ==
    /\ mpc = "deferred"
    /\ mpc' = "running"
    /\ evaluated' = TRUE
    /\ UNCHANGED <<fs, dirs, call, units, ncalls, pre, reads, invoked, result>>

\* lines 116-118: _wrapper(f) opens the tile and applies fn
OpenApply(u) ==
    /\ mpc = "running"
    /\ units[u].pc = "pending"
    /\ LET data == FromNetcdf(fs, units[u].f)
       IN  units' = [units EXCEPT ![u].pc = "applied",
                                  ![u].data = data,
                                  ![u].result = Fn(data)]
    /\ reads' = Append(reads, units[u].f)
    /\ invoked' = invoked + 1
    /\ UNCHANGED <<fs, dirs, call, mpc, ncalls, evaluated, pre, result>>

\* lines 120-126: _wrapper(f) picks the output file
ChooseOut(u) ==
    /\ mpc = "running"
    /\ units[u].pc = "applied"
    /\ LET natural == NaturalPath(units[u].f, call.path, call.suffix)
           exists == natural \in DOMAIN fs
       IN  units' = [units EXCEPT ![u].pc = "named",
                                  ![u].natural = natural,
                                  ![u].existed = exists,
                                  ![u].out_file = OutFile(natural, call.overwrite, exists)]
    /\ UNCHANGED <<fs, dirs, call, mpc, ncalls, evaluated, pre, reads, invoked, result>>

\* lines 127-132: _wrapper(f) writes the result and returns out_file
Write(u) ==
    /\ mpc = "running"
    /\ units[u].pc = "named"
    /\ fs' = WriteNetcdf(fs, units[u].out_file, units[u].result)
    /\ units' = [units EXCEPT ![u].pc = "written"]
    /\ UNCHANGED <<dirs, call, mpc, ncalls, evaluated, pre, reads, invoked, result>>

\* lines 136-142: the results are collected (and handed to auto_merge)
Finish ==
    /\ mpc = "running"
    /\ \A u \in DOMAIN units : units[u].pc = "written"
    /\ result' = [merged |-> call.merge,
                  files |-> [u \in DOMAIN units |-> units[u].out_file]]
    /\ mpc' = "returned"
    /\ UNCHANGED <<fs, dirs, call, units, ncalls, evaluated, pre, reads, invoked>>

MapIdle ==
    /\ call = NoCall
    /\ mpc = "idle"
    /\ units = <<>>
    /\ ncalls = 0
    /\ evaluated = FALSE
    /\ reads = <<>>
    /\ invoked = 0
    /\ result = NoResult

\* some tiles are on disk, in directories that exist
MapInit ==
    /\ \E S \in SUBSET InputPaths :
          /\ S # {}
          /\ fs = [p \in S |-> Original(p)]
          /\ \E D \in SUBSET Directories :
                /\ {p[1] : p \in S} \subseteq D
                /\ dirs = D
    /\ pre = [fs |-> fs, dirs |-> dirs]
    /\ MapIdle

MapUnused ==
    /\ fs = NoFiles
    /\ dirs = {}
    /\ pre = [fs |-> NoFiles, dirs |-> {}]
    /\ MapIdle

TilingUnused ==
    /\ ds = [chunks |-> [d \in DimSet |-> <<1>>], step |-> [d \in DimSet |-> 1]]
    /\ tbuf = [kind |-> "int", val |-> 0]
    /\ tpc = "unused"
    /\ tfiles = NoFiles
    /\ tlog = <<>>
    /\ mbuf = AutoBuffer
    /\ mfull = FALSE
    /\ merged = <<>>
    /\ buf_cache = NoCache
    /\ passes = 0

----------------------------------------------------------------------------
(* extract_arguments() and wrap_algorithm() *)

\* A signature: the parameter names in order; the first nreq have no default.
\* A bound method has lost `self`.
ApplyNames == {"q", "r"}
InitNames == {"p", "q"}
KeywordNames == {"ds", "q", "r", "p", "z"}

DistinctSeqs(S) ==
    {<<>>} \cup {<<a>> : a \in S} \cup ({<<a, b>> : a, b \in S} \ {<<a, a>> : a \in S})

Signatures(first, S) ==
    UNION {{[names |-> first \o qs, nreq |-> k] : k \in Len(first)..Len(first \o qs)} :
             qs \in DistinctSeqs(S)}

\* the i-th positional value; the value given for keyword k
PosVal(i) == <<"pos", i>>
KwVal(k) == <<k, 0>>
Default == <<"default", 0>>

NoArgs == [n \in {} |-> Default]
Raised == [status |-> "TypeError"]

\* d without its key k
Without(d, k) == [n \in (DOMAIN d) \ {k} |-> d[n]]

\* lines 27-28: `self` is dropped from the signature
DropSelf(sig) ==
    IF "self" \in Range(sig.names)
    THEN [names |-> Tail(sig.names), nreq |-> sig.nreq - 1]
    ELSE sig

\* lines 29-32: Signature.bind of (*args, **kwargs) to the parameters followed
\* by *args and **kwargs: values left over go under the keys 'args' and
\* 'kwargs'; a parameter given twice or a required one not given raises.
BindWithLeftovers(sig, args, kwargs) ==
    LET names == sig.names
        npos == Min(Len(args), Len(names))
        positional == {names[i] : i \in 1..npos}
        named == {names[i] : i \in (npos + 1)..Len(names)} \cap DOMAIN kwargs
        rest == SubSeq(args, npos + 1, Len(args))
        extra == [k \in (DOMAIN kwargs) \ Range(names) |-> kwargs[k]]
    IN  IF \E i \in 1..npos : names[i] \in DOMAIN kwargs
        THEN [ok |-> FALSE, arguments |-> NoArgs]
        ELSE IF \E i \in (npos + 1)..sig.nreq : names[i] \notin DOMAIN kwargs
        THEN [ok |-> FALSE, arguments |-> NoArgs]
        ELSE [ok |-> TRUE,
              arguments |->
                 [n \in positional \cup named \cup
                        (IF rest # <<>> THEN {"args"} ELSE {}) \cup
                        (IF DOMAIN extra # {} THEN {"kwargs"} ELSE {}) |->
                    IF n \in positional
                    THEN args[CHOOSE i \in 1..npos : names[i] = n]
                    ELSE IF n \in named THEN kwargs[n]
                    ELSE IF n = "args" THEN rest
                    ELSE extra]]

\* lines 20-33: extract_arguments(fn, args, kwargs)
ExtractArguments(sig, args, kwargs) ==
    LET b == BindWithLeftovers(DropSelf(sig), args, kwargs)
    IN  [ok |-> b.ok,
         arguments |-> b.arguments]

\* An ordinary call f(*args, **kwargs) of a bound method of signature sig: the
\* value each parameter gets, or that the call raises TypeError.
PyCall(sig, args, kwargs) ==
    LET names == sig.names
    IN  IF \/ Len(args) > Len(names)
           \/ \E i \in 1..Len(args) : names[i] \in DOMAIN kwargs
           \/ ~(DOMAIN kwargs \subseteq Range(names))
           \/ \E i \in (Len(args) + 1)..sig.nreq : names[i] \notin DOMAIN kwargs
        THEN [ok |-> FALSE, bound |-> NoArgs]
        ELSE [ok |-> TRUE,
              bound |-> [n \in Range(names) |->
                           LET i == CHOOSE i \in 1..Len(names) : names[i] = n
                           IN  IF i <= Len(args) THEN args[i]
                               ELSE IF n \in DOMAIN kwargs THEN kwargs[n]
                               ELSE Default]]

\* algo(*init_args, **init_kwargs).apply(*apply_args, **apply_kwargs): what
\* apply returns is a function of what the two steps were given
Construct(init_args, init_kwargs, apply_args, apply_kwargs) ==
    LET i == PyCall(DropSelf(algo.init), init_args, init_kwargs)
        a == PyCall(DropSelf(algo.apply), apply_args, apply_kwargs)
    IN  IF i.ok /\ a.ok
        THEN [status |-> "ok", init |-> i.bound, apply |-> a.bound]
        ELSE Raised

\* (mutant) the leftover positional values are dropped
InitArgs_dropped(apply_kwargs) == <<>>

\* line 48: apply_kwargs.pop('args', ())
InitArgs(apply_kwargs) ==
    IF "args" \in DOMAIN apply_kwargs THEN apply_kwargs["args"] ELSE <<>>

\* line 49: apply_kwargs.pop('kwargs', {})
InitKwargs(apply_kwargs) ==
    IF "kwargs" \in DOMAIN apply_kwargs THEN apply_kwargs["kwargs"] ELSE NoArgs

\* lines 45-50: _wrapper(*args, **kwargs)
Wrapper(args, kwargs) ==
    LET e == ExtractArguments(algo.apply, args, kwargs)
    IN  IF ~e.ok THEN Raised
        ELSE Construct(InitArgs(e.arguments), InitKwargs(e.arguments),
                       <<>>, Without(Without(e.arguments, "args"), "kwargs"))

CallWrapper ==
    /\ wpc = "ready"
    /\ wret' = Wrapper(wargs, wkwargs)
    /\ wpc' = "returned"
    /\ UNCHANGED <<algo, wargs, wkwargs>>

BridgeInit ==
    /\ algo \in [apply : Signatures(<<"self", "ds">>, ApplyNames),
                 init : Signatures(<<"self">>, InitNames)]
    /\ algo.apply.nreq >= 2
    /\ \E n \in 0..MaxPositional : wargs = [i \in 1..n |-> PosVal(i)]
    /\ \E K \in SUBSET KeywordNames : wkwargs = [k \in K |-> KwVal(k)]
    /\ wpc = "ready"
    /\ wret = Raised

BridgeUnused ==
    /\ algo = [apply |-> [names |-> <<"self", "ds">>, nreq |-> 2],
               init |-> [names |-> <<"self">>, nreq |-> 1]]
    /\ wargs = <<>>
    /\ wkwargs = NoArgs
    /\ wpc = "unused"
    /\ wret = Raised

----------------------------------------------------------------------------
(* Specifications *)

TilingInit ==
    /\ ds \in Datasets
    /\ tbuf \in IntBuffers \cup DictBuffers
    /\ tpc = "start"
    /\ tfiles = NoFiles
    /\ tlog = <<>>
    /\ mbuf = AutoBuffer
    /\ mfull = FALSE
    /\ merged = <<>>
    /\ buf_cache = NoCache
    /\ passes = 0

\* tile() alone: it never reads the coordinates
InitTile == TilingInit /\ MapUnused /\ BridgeUnused /\ \A d \in DimSet : ds.step[d] = 1
NextTile == (Tile \/ TileBadPath) /\ UNCHANGED <<mvars, wvars>>
SpecTile == InitTile /\ [][NextTile]_vars

\* tile() followed by auto_merge() of tile files
InitMerge == TilingInit /\ MapUnused /\ BridgeUnused
NextMerge ==
    \/ (Tile /\ UNCHANGED <<mvars, wvars>>)
    \/ (TileBadPath /\ UNCHANGED <<mvars, wvars>>)
    \/ (CallMerge /\ UNCHANGED <<mvars, wvars>>)
    \/ (MergeNoFiles /\ UNCHANGED <<mvars, wvars>>)
    \/ (MergePass /\ UNCHANGED <<mvars, wvars>>)
    \/ (MergeReturn /\ UNCHANGED <<mvars, wvars>>)
SpecMerge == InitMerge /\ [][NextMerge]_vars

\* map_over_tiles() called on files already on disk
InitMap == MapInit /\ TilingUnused /\ BridgeUnused
NextMap ==
    \/ (CallMap /\ UNCHANGED <<tvars, wvars>>)
    \/ (CallAgain /\ UNCHANGED <<tvars, wvars>>)
    \/ (Evaluate /\ UNCHANGED <<tvars, wvars>>)
    \/ (\E u \in DOMAIN units : OpenApply(u) /\ UNCHANGED <<tvars, wvars>>)
    \/ (\E u \in DOMAIN units : ChooseOut(u) /\ UNCHANGED <<tvars, wvars>>)
    \/ (\E u \in DOMAIN units : Write(u) /\ UNCHANGED <<tvars, wvars>>)
    \/ (Finish /\ UNCHANGED <<tvars, wvars>>)
SpecMap == InitMap /\ [][NextMap]_vars

\* the callable made by wrap_algorithm() is called
InitBridge == BridgeInit /\ TilingUnused /\ MapUnused
NextBridge == CallWrapper /\ UNCHANGED <<tvars, mvars>>
SpecBridge == InitBridge /\ [][NextBridge]_vars


----------------------------------------------------------------------------
(* Properties of tile() *)

\* the cumulative start of the i-th chunk of dimension d
CumStart(d, i) == Sum(SubSeq(ds.chunks[d], 1, i - 1))
ChunkStarts(d) == {CumStart(d, i) : i \in DOMAIN ds.chunks[d]}
ChunkCombos ==
    {c \in [DimSet -> UNION {ChunkStarts(d) : d \in DimSet}] :
        \A d \in DimSet : c[d] \in ChunkStarts(d)}
NameStart(k, i) == tlog[k].name.suffix[i]

NumCombos == Len(ds.chunks[Dims[1]]) * Len(ds.chunks[Dims[2]])

\* C10 (as stated): tile() leaves one file per combination of chunks, for every
\* non-negative buffer.
C10_OneFilePerTile ==
    tpc = "tiled" => Cardinality(DOMAIN tfiles) = NumCombos

\* the buffer of every dimension of two or more chunks is smaller than that
\* dimension's first chunk
BufferBelowFirstChunk ==
    \A d \in DimSet : Len(ds.chunks[d]) >= 2 => TileBuf(tbuf, d) < ds.chunks[d][1]

\* when tile() does leave one file per combination of chunks: exactly when the
\* buffer of every dimension of two or more chunks is smaller than the
\* dimension's first chunk; a larger buffer clips two starts to 0, the two
\* tiles get one name and the second write replaces the first (holds)
OneFilePerTileIffSmallBuffer ==
    tpc = "tiled" => (Cardinality(DOMAIN tfiles) = NumCombos <=> BufferBelowFirstChunk)

----------------------------------------------------------------------------
(* Properties of tile() followed by auto_merge() *)

Increasing == \A d \in DimSet : ds.step[d] > 0

\* the buffer of every dimension is at most half its smallest chunk
BufferWithinHalfChunk ==
    \A d \in DimSet : \A i \in DOMAIN ds.chunks[d] :
        2 * TileBuf(tbuf, d) <= ds.chunks[d][i]

\* auto_merge() of every tile returned the original dataset, or may still
RoundTrip ==
    /\ tpc \notin {"raised", "diverged"}
    /\ tpc = "done" => merged[1] = Whole

\* C1 (as stated): tile() with buffer 0 then auto_merge() of all tiles with
\* buffer 0 gives back the original dataset, for increasing and for decreasing
\* coordinates.
C1_NoBufferRoundTrip ==
    (mfull /\ tbuf = [kind |-> "int", val |-> 0] /\ mbuf = tbuf) => RoundTrip

\* C1 restricted to increasing coordinates (holds)
C1_NoBufferRoundTripIncreasing ==
    (Increasing /\ mfull /\ tbuf = [kind |-> "int", val |-> 0] /\ mbuf = tbuf)
        => RoundTrip

\* C2 (as stated): tile() with a fixed buffer b > 0 of at most half the
\* smallest chunk, then auto_merge() of all tiles with the same b, gives back
\* the original dataset: every index once, in the original order.
C2_BufferedRoundTrip ==
    (mfull /\ tbuf.kind = "int" /\ tbuf.val > 0 /\ mbuf = tbuf /\ BufferWithinHalfChunk)
        => RoundTrip

\* C2 restricted to increasing coordinates (holds)
C2_BufferedRoundTripIncreasing ==
    (Increasing /\ mfull /\ tbuf.kind = "int" /\ tbuf.val > 0 /\ mbuf = tbuf
        /\ BufferWithinHalfChunk)
        => RoundTrip

\* C4 (as stated): with buffer 'auto', the overlap auto_merge() infers for an
\* axis is the buffer tile() used for it (uniformly spaced coordinates, buffer
\* at most half the smallest chunk).
C4_AutoBufferInferred ==
    (mfull /\ mbuf.kind = "auto" /\ BufferWithinHalfChunk)
        => \A d \in DOMAIN buf_cache : buf_cache[d] = TileBuf(tbuf, d)

\* C4 restricted to increasing coordinates (holds)
C4_AutoBufferInferredIncreasing ==
    (Increasing /\ mfull /\ mbuf.kind = "auto" /\ BufferWithinHalfChunk)
        => \A d \in DOMAIN buf_cache : buf_cache[d] = TileBuf(tbuf, d)

\* C8 (as stated): auto_merge() of a non-empty list of fragments terminates
\* with one dataset: no pass of the loop raises, and none leaves the list as it
\* was (the loop would repeat that pass for ever).
C8_MergeTerminates == tpc \notin {"diverged", "raised"}

----------------------------------------------------------------------------
(* Properties of map_over_tiles() *)

\* unit u's to_netcdf call is this step
IsWrite(u) ==
    /\ units[u].pc = "named"
    /\ u \in DOMAIN units'
    /\ units'[u].pc = "written"

Chosen(u) == units[u].pc \in {"named", "written"}

\* '{stem}{suffix}_new{ext}' in the directory of the natural path, stem and ext
\* those of the input file's name
StemSuffixNewExt(u) ==
    <<units[u].natural[1],
      SplitExt(units[u].f[2])[1] \o call.suffix \o <<"_new">> \o SplitExt(units[u].f[2])[2]>>

\* the write of a unit that found its natural path taken leaves that file alone;
\* under overwrite=True the write replaces the file at the natural path
WriteKeepsNatural(u) ==
    IsWrite(u) =>
        /\ (~call.overwrite /\ units[u].existed /\ units[u].natural \in DOMAIN fs)
              => /\ units[u].natural \in DOMAIN fs'
                 /\ fs'[units[u].natural] = fs[units[u].natural]
        /\ call.overwrite => fs'[units[u].natural] = units[u].result

\* C5 (as stated): a natural output path that exists, with overwrite=False,
\* sends the result to {stem}{suffix}_new{ext} in the same directory and leaves
\* the file at the natural path as it was; overwrite=True writes the natural path.
C5_NewIsStemSuffixNewExt ==
    /\ [](\A u \in DOMAIN units : Chosen(u) =>
            /\ (~call.overwrite /\ units[u].existed)
                  => units[u].out_file = StemSuffixNewExt(u)
            /\ call.overwrite => units[u].out_file = units[u].natural)
    /\ [][\A u \in DOMAIN units : WriteKeepsNatural(u)]_vars

\* the input name has an extension, or the suffix holds no dot
ExtOrPlainSuffix(u) ==
    SplitExt(units[u].f[2])[2] # <<>> \/ "." \notin Range(call.suffix)

\* name with "_new" put in at some place
NewInserted(name, new_name) ==
    \E i \in 0..Len(name) :
        new_name = SubSeq(name, 1, i) \o <<"_new">> \o SubSeq(name, i + 1, Len(name))

\* C5 (amended): a natural output path that exists, with overwrite=False, sends
\* the result to the natural path with _new put in before the final extension
\* of the natural name, in the same directory; that is {stem}{suffix}_new{ext}
\* when the input name has an extension or the suffix holds no dot.  The file
\* at the natural path is left as it was; overwrite=True writes the natural path.
C5_OverwriteAvoidance ==
    /\ [](\A u \in DOMAIN units : Chosen(u) =>
            /\ (~call.overwrite /\ units[u].existed) =>
                  /\ units[u].out_file[1] = units[u].natural[1]
                  /\ NewInserted(units[u].natural[2], units[u].out_file[2])
                  /\ SplitExt(units[u].out_file[2])[2] = SplitExt(units[u].natural[2])[2]
                  /\ ExtOrPlainSuffix(u) => units[u].out_file = StemSuffixNewExt(u)
            /\ call.overwrite => units[u].out_file = units[u].natural)
    /\ [][\A u \in DOMAIN units : WriteKeepsNatural(u)]_vars

\* C5 witness: a result was written to {stem}{suffix}_new{ext} and the file at
\* the natural path still holds something else
C5_Witness ==
    \E u \in DOMAIN units :
        /\ units[u].pc = "written"
        /\ ~call.overwrite /\ units[u].existed
        /\ units[u].out_file = StemSuffixNewExt(u)
        /\ fs[units[u].out_file] = units[u].result
        /\ fs[units[u].natural] # units[u].result

NothingDone ==
    /\ fs = pre.fs
    /\ reads = <<>>
    /\ invoked = 0
    /\ \A u \in DOMAIN units : units[u].pc = "pending"

\* what a finished call has done: every file read once and fn applied to it,
\* every result written to its unit's output file, these files returned
AllDone ==
    /\ Len(reads) = Len(call.files)
    /\ Range(reads) = Range(call.files)
    /\ invoked = Len(call.files)
    /\ \A u \in DOMAIN units :
          /\ units[u].pc = "written"
          /\ units[u].result = Fn(units[u].data)
          /\ units[u].out_file \in DOMAIN fs
    /\ result = [merged |-> call.merge,
                 files |-> [u \in DOMAIN units |-> units[u].out_file]]

\* C6 (as stated): a compute=False call returns with the file system as it was
\* (no file read or written, no directory made) and fn not invoked; the work is
\* done when the handle is evaluated, and is the work of a compute=True call.
C6_DeferredNoFileSystemChange ==
    /\ (mpc # "idle" /\ ~evaluated) => (NothingDone /\ dirs = pre.dirs)
    /\ mpc = "returned" => AllDone

\* C6 (amended): a compute=False call makes the output directory (when path is
\* given) and nothing else: no file is read or written and fn is not invoked
\* until the handle is evaluated; the evaluation does the work of a
\* compute=True call.
C6_DeferredExceptMakedirs ==
    /\ (mpc # "idle" /\ ~evaluated) =>
          /\ NothingDone
          /\ dirs = pre.dirs \cup (IF call.path = None THEN {} ELSE {call.path})
    /\ mpc = "returned" => AllDone

\* C6 witness: the handle of a compute=False call that made its directory was
\* evaluated and the call's work is done
C6_Witness ==
    /\ mpc = "returned"
    /\ ~call.compute
    /\ call.path # None /\ call.path \notin pre.dirs
    /\ AllDone

\* C9 (as stated): under overwrite=False every write of a result goes to a
\* path at which no file exists when it is written.
C9_NoClobbering ==
    [][\A u \in DOMAIN units :
          (IsWrite(u) /\ ~call.overwrite) => units[u].out_file \notin DOMAIN fs]_vars

----------------------------------------------------------------------------
(* Properties of the bridge *)

ApplyParams == Range(DropSelf(algo.apply).names)
NumApply == Len(DropSelf(algo.apply).names)

\* C7: the wrapper called with (d, v1..vm, w1..wn) and keywords K returns what
\* algo(w1..wn, **K_init).apply(d, v1..vm, **K_apply) returns (or raises as it
\* does): the positional values up to apply's parameter count and the keywords
\* naming an apply parameter go to apply, every other value to the constructor.
C7_BridgeDispatch ==
    wpc = "returned" =>
        wret = Construct(
                  SubSeq(wargs, NumApply + 1, Len(wargs)),
                  [k \in (DOMAIN wkwargs) \ ApplyParams |-> wkwargs[k]],
                  SubSeq(wargs, 1, Min(Len(wargs), NumApply)),
                  [k \in (DOMAIN wkwargs) \cap ApplyParams |-> wkwargs[k]])

\* C7 witness: a call with positional values for both steps and keywords for
\* both steps returned, every value in its place
C7_Witness ==
    /\ wpc = "returned"
    /\ wret.status = "ok"
    /\ Len(wargs) > NumApply
    /\ \E k \in DOMAIN wkwargs : k \in DOMAIN wret.init /\ wret.init[k] = KwVal(k)
    /\ wret.apply["ds"] = PosVal(1)
    /\ \E n \in DOMAIN wret.init : wret.init[n] = PosVal(NumApply + 1)

\* C7 witness: a keyword naming an apply parameter reached apply
C7_WitnessKeyword ==
    /\ wpc = "returned"
    /\ wret.status = "ok"
    /\ \E k \in DOMAIN wkwargs : k \in ApplyParams /\ wret.apply[k] = KwVal(k)
    /\ \E k \in DOMAIN wkwargs : k \notin ApplyParams /\ wret.init[k] = KwVal(k)
====
